---- MODULE Spec2Model ----
(***************************************************************************)
(* Model of the EventBridge shortener Lambda                               *)
(* (src/src/shortener/lambda_function.py).                                 *)
(*                                                                         *)
(* One invocation of lambda_handler is a run of the state machine: the     *)
(* request arrives (Invoke), the body is decoded, the raw event is sized,  *)
(* the event is either passed through or offloaded to S3, annotated,       *)
(* sized again, the metrics are recorded and the response is returned.     *)
(*                                                                         *)
(* Python values are records of one shape [k, s, n, items]; texts (the     *)
(* request body, json.dumps output, str() output, file contents) are       *)
(* sequences of tokens, so that byte lengths of several hundred kilobytes  *)
(* are computed without enumerating characters.                            *)
(***************************************************************************)
EXTENDS Integers, Sequences, FiniteSets, TLC

(***************************************************************************)
(* Python values.  A string is the unit text s repeated n times (ASCII     *)
(* letters only, so no character needs a JSON escape and one character is  *)
(* one UTF-8 byte).                                                        *)
(***************************************************************************)
Str(s, n) == [k |-> "str", s |-> IF n = 0 THEN "" ELSE s, n |-> n, items |-> <<>>]
Num(v) == [k |-> "num", s |-> "", n |-> v, items |-> <<>>]
Bool(b) == [k |-> "bool", s |-> "", n |-> IF b THEN 1 ELSE 0, items |-> <<>>]
PyNone == [k |-> "none", s |-> "", n |-> 0, items |-> <<>>]
List(xs) == [k |-> "list", s |-> "", n |-> 0, items |-> xs]
Pair(key, v) == [k |-> "pair", s |-> key, n |-> 0, items |-> <<v>>]
Dict(ps) == [k |-> "dict", s |-> "", n |-> 0, items |-> ps]

\* dict operations: key in d, d.get(key, default), d[key] = v, del d[key]
HasKey(d, key) == \E i \in 1..Len(d.items) : d.items[i].s = key
Get(d, key, default) ==
    IF d.k = "dict" /\ HasKey(d, key)
    THEN d.items[CHOOSE i \in 1..Len(d.items) : d.items[i].s = key].items[1]
    ELSE default
SetItem(d, key, v) ==
    IF HasKey(d, key)
    THEN Dict([i \in 1..Len(d.items) |->
                  IF d.items[i].s = key THEN Pair(key, v) ELSE d.items[i]])
    ELSE Dict(Append(d.items, Pair(key, v)))
DelItem(d, key) ==
    LET Keep(j) == d.items[j].s # key
        RECURSIVE Filter(_)
        Filter(j) == IF j > Len(d.items) THEN <<>>
                     ELSE IF Keep(j) THEN <<d.items[j]>> \o Filter(j + 1)
                     ELSE Filter(j + 1)
    IN Dict(Filter(1))

(***************************************************************************)
(* Texts.  A token is a piece of punctuation or a literal keyword ("sym"), *)
(* a run of letters ("chr": s repeated n times) or a decimal integer.      *)
(***************************************************************************)
Sym(s) == [t |-> "sym", s |-> s, n |-> 1]
Chr(s, n) == [t |-> "chr", s |-> s, n |-> n]
IntTok(v) == [t |-> "int", s |-> "", n |-> v]

RECURSIVE Digits(_)
Digits(v) == IF v < 10 THEN 1 ELSE 1 + Digits(v \div 10)

TokLen(tok) == IF tok.t = "int" THEN Digits(tok.n) ELSE Len(tok.s) * tok.n

\* len(text.encode("utf-8"))
RECURSIVE ByteLenFrom(_, _)
ByteLenFrom(text, i) ==
    IF i > Len(text) THEN 0 ELSE TokLen(text[i]) + ByteLenFrom(text, i + 1)
ByteLen(text) == ByteLenFrom(text, 1)

\* the characters of a Python string, without quotes
Content(v) == IF v.n = 0 THEN <<>> ELSE <<Chr(v.s, v.n)>>

(***************************************************************************)
(* json.dumps with the default separators (", " and ": ").                 *)
(***************************************************************************)
RECURSIVE JsonDumps(_), JsonDumpsFrom(_, _)
JsonDumps(v) ==
    CASE v.k = "str"  -> <<Sym("\"")>> \o Content(v) \o <<Sym("\"")>>
      [] v.k = "num"  -> <<IntTok(v.n)>>
      [] v.k = "bool" -> <<Sym(IF v.n = 1 THEN "true" ELSE "false")>>
      [] v.k = "none" -> <<Sym("null")>>
      [] v.k = "list" -> <<Sym("[")>> \o JsonDumpsFrom(v.items, 1) \o <<Sym("]")>>
      [] v.k = "dict" -> <<Sym("{")>> \o JsonDumpsFrom(v.items, 1) \o <<Sym("}")>>
      [] v.k = "pair" -> <<Sym("\""), Chr(v.s, 1), Sym("\""), Sym(": ")>>
                             \o JsonDumps(v.items[1])
JsonDumpsFrom(xs, i) ==
    IF i > Len(xs) THEN <<>>
    ELSE (IF i > 1 THEN <<Sym(", ")>> ELSE <<>>)
             \o JsonDumps(xs[i]) \o JsonDumpsFrom(xs, i + 1)

(***************************************************************************)
(* str() and repr() of a Python value: a string is rendered by str() as    *)
(* its bare characters and by repr() in single quotes; None, True and      *)
(* False keep their Python spelling.                                       *)
(***************************************************************************)
RECURSIVE PyRepr(_), PyReprFrom(_, _)
PyRepr(v) ==
    CASE v.k = "str"  -> <<Sym("'")>> \o Content(v) \o <<Sym("'")>>
      [] v.k = "num"  -> <<IntTok(v.n)>>
      [] v.k = "bool" -> <<Sym(IF v.n = 1 THEN "True" ELSE "False")>>
      [] v.k = "none" -> <<Sym("None")>>
      [] v.k = "list" -> <<Sym("[")>> \o PyReprFrom(v.items, 1) \o <<Sym("]")>>
      [] v.k = "dict" -> <<Sym("{")>> \o PyReprFrom(v.items, 1) \o <<Sym("}")>>
      [] v.k = "pair" -> <<Sym("'"), Chr(v.s, 1), Sym("'"), Sym(": ")>>
                             \o PyRepr(v.items[1])
PyReprFrom(xs, i) ==
    IF i > Len(xs) THEN <<>>
    ELSE (IF i > 1 THEN <<Sym(", ")>> ELSE <<>>)
             \o PyRepr(xs[i]) \o PyReprFrom(xs, i + 1)
PyStr(v) == IF v.k = "str" THEN Content(v) ELSE PyRepr(v)

(***************************************************************************)
(* json.loads: a recursive-descent parser over the tokens.  A parse        *)
(* returns [ok, v, next]: the value read and the index after it.           *)
(***************************************************************************)
ParseFail == [ok |-> FALSE, v |-> PyNone, next |-> 0]
Parsed(v, next) == [ok |-> TRUE, v |-> v, next |-> next]
IsSym(text, i, s) == i <= Len(text) /\ text[i].t = "sym" /\ text[i].s = s
IsChr(text, i) == i <= Len(text) /\ text[i].t = "chr"

\* a quoted string starting at i: "" or "letters"
ParseString(text, i) ==
    IF ~IsSym(text, i, "\"") THEN ParseFail
    ELSE IF IsSym(text, i + 1, "\"") THEN Parsed(Str("", 0), i + 2)
    ELSE IF IsChr(text, i + 1) /\ IsSym(text, i + 2, "\"")
         THEN Parsed(Str(text[i + 1].s, text[i + 1].n), i + 3)
    ELSE ParseFail

RECURSIVE ParseValue(_, _), ParseItems(_, _, _), ParsePairs(_, _, _)
ParseValue(text, i) ==
    IF i > Len(text) THEN ParseFail
    ELSE IF text[i].t = "int" THEN Parsed(Num(text[i].n), i + 1)
    ELSE IF IsSym(text, i, "null") THEN Parsed(PyNone, i + 1)
    ELSE IF IsSym(text, i, "true") THEN Parsed(Bool(TRUE), i + 1)
    ELSE IF IsSym(text, i, "false") THEN Parsed(Bool(FALSE), i + 1)
    ELSE IF IsSym(text, i, "\"") THEN ParseString(text, i)
    ELSE IF IsSym(text, i, "[")
         THEN IF IsSym(text, i + 1, "]") THEN Parsed(List(<<>>), i + 2)
              ELSE ParseItems(text, i + 1, <<>>)
    ELSE IF IsSym(text, i, "{")
         THEN IF IsSym(text, i + 1, "}") THEN Parsed(Dict(<<>>), i + 2)
              ELSE ParsePairs(text, i + 1, Dict(<<>>))
    ELSE ParseFail
ParseItems(text, i, acc) ==
    LET r == ParseValue(text, i)
    IN IF ~r.ok THEN ParseFail
       ELSE IF IsSym(text, r.next, "]") THEN Parsed(List(Append(acc, r.v)), r.next + 1)
       ELSE IF IsSym(text, r.next, ", ") THEN ParseItems(text, r.next + 1, Append(acc, r.v))
       ELSE ParseFail
ParsePairs(text, i, acc) ==
    LET key == ParseString(text, i)
    IN IF ~key.ok \/ key.v.n # 1 \/ ~IsSym(text, key.next, ": ") THEN ParseFail
       ELSE LET r == ParseValue(text, key.next + 1)
                d == SetItem(acc, key.v.s, r.v)
            IN IF ~r.ok THEN ParseFail
               ELSE IF IsSym(text, r.next, "}") THEN Parsed(d, r.next + 1)
               ELSE IF IsSym(text, r.next, ", ") THEN ParsePairs(text, r.next + 1, d)
               ELSE ParseFail

\* json.loads(text): the value, or ValueError when text is not one JSON document
JsonLoads(text) ==
    LET r == ParseValue(text, 1)
    IN IF r.ok /\ r.next = Len(text) + 1 THEN [ok |-> TRUE, v |-> r.v]
       ELSE [ok |-> FALSE, v |-> PyNone]

(***************************************************************************)
(* Program constants and the environment of one invocation.                *)
(***************************************************************************)
\* the overflow threshold of lambda_handler: 256000 - 50
Threshold == 255950
\* the fixed overhead the estimator adds for a present time field
TimeOverhead == 14

\* os.environ['SHORTENER_BUCKET_NAME']
BUCKET_NAME == Str("eventbridge-shortener-s3bucket", 1)

\* longest resources list of an inbound event
MaxResources == 1

RECURSIVE SeqsUpTo(_, _)
SeqsUpTo(S, n) ==
    IF n = 0 THEN {<<>>}
    ELSE LET shorter == SeqsUpTo(S, n - 1)
         IN shorter \cup {Append(q, x) : q \in {r \in shorter : Len(r) = n - 1}, x \in S}

Absent == [k |-> "absent", s |-> "", n |-> 0, items |-> <<>>]

\* the fields of an inbound event (Absent: the key is not in the JSON object)
Times == {Absent, Str("2021-10-01T12:00:00Z", 1)}
\* (source, detail-type) of the producers: a short source, and one that by
\* itself exceeds the threshold
Origins == {<<Str("svc", 1), Str("order", 1)>>, <<Str("s", 260000), Str("audit", 1)>>}
ResourceEntries == {Str("", 0), Str("arn:aws:s3:::orders", 1)}
ResourceLists == {Absent} \cup {List(q) : q \in SeqsUpTo(ResourceEntries, MaxResources)}
\* detail.data: the two long strings put the plain event {source "svc",
\* detail-type "order", detail {data, metadata {}}} exactly on the threshold
\* and one byte over it
DataValues ==
    { Absent, Str("x", 5), Str("x", Threshold - 36), Str("x", Threshold - 35),
      Num(42), List(<<Num(1), Num(2)>>), Dict(<<Pair("k", Str("v", 1))>>) }
\* detail.metadata is always a map, as the event's data model requires (the
\* annotator indexes event["detail"]["metadata"] without a default); it is
\* empty, or already holds a stale event_trucation entry and another key
Metadatas ==
    { Dict(<<>>),
      Dict(<<Pair("event_trucation", Str("x", 100)), Pair("trace", Str("abc", 1))>>) }
\* another field of detail, next to data and metadata
Blobs == {Absent, Str("y", 300000)}

\* a dict of the pairs whose value is present
DictOf(ps) ==
    LET RECURSIVE Present(_)
        Present(i) == IF i > Len(ps) THEN <<>>
                      ELSE IF ps[i].items[1] = Absent THEN Present(i + 1)
                      ELSE <<ps[i]>> \o Present(i + 1)
    IN Dict(Present(1))

MakeEvent(time, source, dtype, resources, data, metadata, blob) ==
    DictOf(<< Pair("source", source), Pair("detail-type", dtype),
              Pair("detail", DictOf(<<Pair("data", data), Pair("metadata", metadata),
                                      Pair("blob", blob)>>)),
              Pair("resources", resources), Pair("time", time) >>)

Events ==
    { MakeEvent(tm, o[1], o[2], rs, d, md, b) :
        tm \in Times, o \in Origins, rs \in ResourceLists,
        d \in DataValues, md \in Metadatas, b \in Blobs }

\* request bodies: an event document, text that is not JSON ("{invalid"),
\* and the JSON documents false and 7
Bodies ==
    {JsonDumps(e) : e \in Events}
        \cup { <<Sym("{"), Chr("invalid", 1)>>, <<Sym("false")>>, <<IntTok(7)>> }
\* the inbound request: with a body field, or without one
Requests ==
    {[hasBody |-> TRUE, body |-> b] : b \in Bodies} \cup {[hasBody |-> FALSE, body |-> <<>>]}

RequestIds == {"req-1"}
Uuids == {"123e4567-e89b-42d3-a456-426614174000"}
Dates == {[year |-> 2021, month |-> 11, day |-> 5]}
\* presigned URLs the storage service may hand back
Urls == {Str("u", 1500)}

(***************************************************************************)
(* extract_data                                                            *)
(***************************************************************************)
\* a decoder that reports a syntax error as "no event" instead of False
extract_data_swallow(event) ==
    IF event.hasBody
    THEN LET r == JsonLoads(event.body)
         IN IF r.ok THEN r.v ELSE PyNone
    ELSE PyNone

extract_data(event) ==
    IF event.hasBody
    THEN LET r == JsonLoads(event.body)
         IN IF r.ok THEN r.v ELSE Bool(FALSE)
    ELSE PyNone

(***************************************************************************)
(* get_eventbridge_put_event_size                                          *)
(***************************************************************************)
\* len(s.encode("utf-8"))
EncodedLen(v) == ByteLen(Content(v))

RECURSIVE ResourcesSize(_, _)
ResourcesSize(rs, i) ==
    IF i > Len(rs) THEN 0
    ELSE (IF rs[i].n # 0 THEN EncodedLen(rs[i]) ELSE 0) + ResourcesSize(rs, i + 1)

\* an estimator that charges the timestamp overhead whether or not time is set
get_eventbridge_put_event_size_always_time(e) ==
    TimeOverhead
        + EncodedLen(Get(e, "source", PyNone))
        + EncodedLen(Get(e, "detail-type", PyNone))
        + ByteLen(JsonDumps(Get(e, "detail", PyNone)))
        + ResourcesSize(Get(e, "resources", List(<<>>)).items, 1)

get_eventbridge_put_event_size(e) ==
    (IF Get(e, "time", PyNone) # PyNone THEN TimeOverhead ELSE 0)
        + EncodedLen(Get(e, "source", PyNone))
        + EncodedLen(Get(e, "detail-type", PyNone))
        + ByteLen(JsonDumps(Get(e, "detail", PyNone)))
        + ResourcesSize(Get(e, "resources", List(<<>>)).items, 1)

(***************************************************************************)
(* add_event_metadata                                                      *)
(***************************************************************************)
TruncationRecord(trucated_event, presigned_url, event_data_size, bucket_name, object_path) ==
    IF trucated_event
    THEN Dict(<< Pair("event_truncated", Bool(TRUE)),
                 Pair("event_body_url", presigned_url),
                 Pair("event_data_size", event_data_size),
                 Pair("event_object_bucket", bucket_name),
                 Pair("event_object_key", object_path) >>)
    ELSE Dict(<<Pair("event_truncated", Bool(FALSE))>>)

add_event_metadata(e, trucated_event, presigned_url, event_data_size, bucket_name, object_path) ==
    LET detail == Get(e, "detail", PyNone)
        md == SetItem(Get(detail, "metadata", PyNone), "event_trucation",
                      TruncationRecord(trucated_event, presigned_url, event_data_size,
                                       bucket_name, object_path))
        stamped == SetItem(detail, "metadata", md)
        cut == IF trucated_event /\ HasKey(stamped, "data")
               THEN DelItem(stamped, "data") ELSE stamped
    IN SetItem(e, "detail", cut)

(***************************************************************************)
(* The state of one invocation of lambda_handler.                          *)
(***************************************************************************)
VARIABLES
    pc,                   \* position in lambda_handler
    event,                \* the request passed to the handler
    context,              \* the Lambda context: aws_request_id, cold start
    event_data,           \* the decoded event, mutated by the annotator
    raw_size,             \* size of the raw event, compared with the threshold
    offload,              \* the outcome of the overflow comparison
    truncated_event_data, \* detail.data as extracted on the offload path
    truncated_data_size,  \* the size recorded as event_data_size
    file_object_path,     \* the S3 object key
    presigned_url,        \* result of create_presigned_url
    final_event_size,     \* size of the annotated event
    response,             \* the response dict before json.dumps
    result,               \* what the invocation gave back: a text or an exception
    bucket,               \* objects in the S3 bucket
    pending,              \* the module-level Metrics object
    sink,                 \* metric blobs flushed to CloudWatch
    calls,                \* how often each collaborator ran in this invocation
    failed                \* which collaborator failed in this invocation

vars == << pc, event, context, event_data, raw_size, offload, truncated_event_data,
           truncated_data_size, file_object_path, presigned_url, final_event_size,
           response, result, bucket, pending, sink, calls, failed >>

NoMetrics == [metrics |-> <<>>, dimensions |-> <<>>, metadata |-> <<>>]
NoResult == [kind |-> "none", text |-> <<>>, exc |-> ""]
Returned(resp) == [kind |-> "return", text |-> JsonDumps(resp), exc |-> ""]
Raised(exc) == [kind |-> "raise", text |-> <<>>, exc |-> exc]

Init ==
    /\ pc = "idle"
    /\ event = [hasBody |-> FALSE, body |-> <<>>]
    /\ context = [aws_request_id |-> "", cold |-> FALSE]
    /\ event_data = PyNone
    /\ raw_size = 0
    /\ offload = FALSE
    /\ truncated_event_data = PyNone
    /\ truncated_data_size = 0
    /\ file_object_path = PyNone
    /\ presigned_url = PyNone
    /\ final_event_size = 0
    /\ response = PyNone
    /\ result = NoResult
    /\ bucket = {}
    /\ pending = NoMetrics
    /\ sink = <<>>
    /\ calls = [estimator |-> 0, upload |-> 0, presign |-> 0, annotator |-> 0, emitter |-> 0]
    /\ failed = [storage |-> FALSE, metrics |-> FALSE]

\* the metric log_metrics(capture_cold_start_metric=True) publishes on a cold start
ColdStartBlob ==
    [metrics |-> <<[name |-> "ColdStart", unit |-> "Count", value |-> 1]>>,
     dimensions |-> <<[name |-> "function_name", value |-> Str("shortenerLambda", 1)]>>,
     metadata |-> <<>>]

\* the platform calls lambda_handler(event, context)
Invoke(req, rid, cold) ==
    /\ pc = "idle"
    /\ pc' = "extract"
    /\ event' = req
    /\ context' = [aws_request_id |-> rid, cold |-> cold]
    /\ sink' = IF cold THEN Append(sink, ColdStartBlob) ELSE sink
    /\ UNCHANGED << event_data, raw_size, offload, truncated_event_data, truncated_data_size,
                    file_object_path, presigned_url, final_event_size, response, result,
                    bucket, pending, calls, failed >>

BadRequest == Dict(<<Pair("statusCode", Num(400)), Pair("message", Str("Invalid JSON in body", 1))>>)

\* event_data = extract_data(event); if event_data is False: return 400
Decode ==
    /\ pc = "extract"
    /\ event_data' = extract_data(event)
    /\ IF event_data' = Bool(FALSE)
       THEN /\ response' = BadRequest
            /\ result' = Returned(BadRequest)
            /\ pc' = "exit"
       ELSE /\ pc' = "size_raw"
            /\ UNCHANGED << response, result >>
    /\ UNCHANGED << event, context, raw_size, offload, truncated_event_data,
                    truncated_data_size, file_object_path, presigned_url, final_event_size,
                    bucket, pending, sink, calls, failed >>

\* the overflow comparison: size > 255950
Overflows_inclusive(size) == size >= Threshold
Overflows(size) == size > Threshold

\* if get_eventbridge_put_event_size(event_data) > 255950
EstimateRaw ==
    /\ pc = "size_raw"
    /\ calls' = [calls EXCEPT !.estimator = @ + 1]
    /\ IF event_data.k # "dict"
       THEN \* None, a number or a list has no .get: AttributeError
            /\ result' = Raised("AttributeError")
            /\ pc' = "exit"
            /\ UNCHANGED << raw_size, offload >>
       ELSE /\ raw_size' = get_eventbridge_put_event_size(event_data)
            /\ offload' = Overflows(raw_size')
            /\ pc' = IF offload' THEN "extract_heavy" ELSE "annotate"
            /\ UNCHANGED result
    /\ UNCHANGED << event, context, event_data, truncated_event_data, truncated_data_size,
                    file_object_path, presigned_url, final_event_size, response,
                    bucket, pending, sink, failed >>

\* truncated_event_data = event_data["detail"].get("data")
\* truncated_data_size = len(json.dumps(event_data).encode("utf-8"))
ExtractHeavy ==
    /\ pc = "extract_heavy"
    /\ truncated_event_data' = Get(Get(event_data, "detail", PyNone), "data", PyNone)
    /\ truncated_data_size' = ByteLen(JsonDumps(event_data))
    /\ pc' = "generate_key"
    /\ UNCHANGED << event, context, event_data, raw_size, offload, file_object_path,
                    presigned_url, final_event_size, response, result, bucket, pending,
                    sink, calls, failed >>

\* f"{year}/{month}/{day}/{uuid}.json"
ObjectPath(date, uuid) ==
    Str(ToString(date.year) \o "/" \o ToString(date.month) \o "/" \o ToString(date.day)
            \o "/" \o uuid \o ".json", 1)

\* generate_uuid_filename = str(uuid.uuid4()); current_date = datetime.datetime.today()
GenerateKey(uuid, date) ==
    /\ pc = "generate_key"
    /\ file_object_path' = ObjectPath(date, uuid)
    /\ pc' = "upload"
    /\ UNCHANGED << event, context, event_data, raw_size, offload, truncated_event_data,
                    truncated_data_size, presigned_url, final_event_size, response, result,
                    bucket, pending, sink, calls, failed >>

\* create_presigned_url, first half: write file_content=str(truncated_event_data)
\* to /tmp and s3.upload_file it.  The call succeeds, raises ClientError (caught:
\* the function returns None) or raises another error (not caught).
Upload(outcome) ==
    /\ pc = "upload"
    /\ calls' = [calls EXCEPT !.upload = @ + 1]
    /\ CASE outcome = "ok" ->
                /\ bucket' = bucket \cup {[key |-> file_object_path,
                                           body |-> PyStr(truncated_event_data),
                                           content_type |-> "text/csv"]}
                /\ pc' = "presign"
                /\ UNCHANGED << presigned_url, result, failed >>
         [] outcome = "ClientError" ->
                /\ presigned_url' = PyNone
                /\ failed' = [failed EXCEPT !.storage = TRUE]
                /\ pc' = "annotate"
                /\ UNCHANGED << bucket, result >>
         [] outcome = "S3UploadFailedError" ->
                /\ result' = Raised("S3UploadFailedError")
                /\ failed' = [failed EXCEPT !.storage = TRUE]
                /\ pc' = "exit"
                /\ UNCHANGED << bucket, presigned_url >>
    /\ UNCHANGED << event, context, event_data, raw_size, offload, truncated_event_data,
                    truncated_data_size, file_object_path, final_event_size, response,
                    pending, sink >>

\* create_presigned_url, second half: s3.generate_presigned_url; a ClientError
\* is caught and the function returns None
Presign(outcome, url) ==
    /\ pc = "presign"
    /\ calls' = [calls EXCEPT !.presign = @ + 1]
    /\ IF outcome = "ok"
       THEN /\ presigned_url' = url
            /\ UNCHANGED failed
       ELSE /\ presigned_url' = PyNone
            /\ failed' = [failed EXCEPT !.storage = TRUE]
    /\ pc' = "annotate"
    /\ UNCHANGED << event, context, event_data, raw_size, offload, truncated_event_data,
                    truncated_data_size, file_object_path, final_event_size, response,
                    result, bucket, pending, sink >>

\* event_with_metadata = add_event_metadata(event_data, ...), on either branch
Annotate ==
    /\ pc = "annotate"
    /\ calls' = [calls EXCEPT !.annotator = @ + 1]
    /\ event_data' =
           IF offload
           THEN add_event_metadata(event_data, TRUE, presigned_url, Num(truncated_data_size),
                                   BUCKET_NAME, file_object_path)
           ELSE add_event_metadata(event_data, FALSE, PyNone, PyNone, PyNone, PyNone)
    /\ pc' = "final_size"
    /\ UNCHANGED << event, context, raw_size, offload, truncated_event_data,
                    truncated_data_size, file_object_path, presigned_url, final_event_size,
                    response, result, bucket, pending, sink, failed >>

\* final_event_size = get_eventbridge_put_event_size(event_with_metadata)
FinalSize ==
    /\ pc = "final_size"
    /\ calls' = [calls EXCEPT !.estimator = @ + 1]
    /\ final_event_size' = get_eventbridge_put_event_size(event_data)
    /\ pc' = "metrics"
    /\ UNCHANGED << event, context, event_data, raw_size, offload, truncated_event_data,
                    truncated_data_size, file_object_path, presigned_url, response, result,
                    bucket, pending, sink, failed >>

(***************************************************************************)
(* put_event_size_metrics: four calls on the Metrics object, in order.     *)
(* upto is the number of calls that completed (4: all of them).            *)
(***************************************************************************)
\* an emitter that swaps the dimension value and the metadata value
put_event_size_metrics_swapped(m, event_size, event_type, put_event_id, upto) ==
    [metrics |-> m.metrics
                    \o (IF upto >= 1
                        THEN <<[name |-> "Size", unit |-> "Bytes", value |-> event_size]>>
                        ELSE <<>>)
                    \o (IF upto >= 2
                        THEN <<[name |-> "Count", unit |-> "Count", value |-> 1]>>
                        ELSE <<>>),
     dimensions |-> m.dimensions
                    \o (IF upto >= 3
                        THEN <<[name |-> "EventType", value |-> Str(put_event_id, 1)]>>
                        ELSE <<>>),
     metadata |-> m.metadata
                    \o (IF upto >= 4
                        THEN <<[key |-> "PutEventId", value |-> "order"]>>
                        ELSE <<>>)]

put_event_size_metrics(m, event_size, event_type, put_event_id, upto) ==
    [metrics |-> m.metrics
                    \o (IF upto >= 1
                        THEN <<[name |-> "Size", unit |-> "Bytes", value |-> event_size]>>
                        ELSE <<>>)
                    \o (IF upto >= 2
                        THEN <<[name |-> "Count", unit |-> "Count", value |-> 1]>>
                        ELSE <<>>),
     dimensions |-> m.dimensions
                    \o (IF upto >= 3
                        THEN <<[name |-> "EventType", value |-> event_type]>>
                        ELSE <<>>),
     metadata |-> m.metadata
                    \o (IF upto >= 4
                        THEN <<[key |-> "PutEventId", value |-> put_event_id]>>
                        ELSE <<>>)]

\* put_event_size_metrics(event_size=final_event_size,
\*     event_type=event_data.get("detail-type"), put_event_id=context.aws_request_id)
\* failAt = 0: every call succeeds; failAt = j: the j-th call raises, and the
\* handler, which has no except clause around the emitter, raises with it.
EmitMetrics(failAt) ==
    /\ pc = "metrics"
    /\ calls' = [calls EXCEPT !.emitter = @ + 1]
    /\ pending' = put_event_size_metrics(pending, final_event_size,
                                         Get(event_data, "detail-type", PyNone),
                                         context.aws_request_id,
                                         IF failAt = 0 THEN 4 ELSE failAt - 1)
    /\ IF failAt = 0
       THEN /\ pc' = "respond"
            /\ UNCHANGED << result, failed >>
       ELSE /\ result' = Raised("MetricsError")
            /\ failed' = [failed EXCEPT !.metrics = TRUE]
            /\ pc' = "exit"
    /\ UNCHANGED << event, context, event_data, raw_size, offload, truncated_event_data,
                    truncated_data_size, file_object_path, presigned_url, final_event_size,
                    response, bucket, sink >>

\* the response dict of either branch
OkResponse(truncated, url, size) ==
    Dict(<< Pair("statusCode", Num(200)),
            Pair("headers", Dict(<<Pair("Content-Type", Str("application/json", 1))>>)),
            Pair("event",
                 IF truncated
                 THEN Dict(<< Pair("event_trucated", Bool(TRUE)),
                              Pair("presigned_url", url),
                              Pair("event_size", Num(size)) >>)
                 ELSE Dict(<< Pair("event_trucated", Bool(FALSE)),
                              Pair("event_size", Num(size)) >>)) >>)

\* a responder that reports the size measured before the annotation
Respond_raw_size ==
    /\ pc = "respond"
    /\ response' = OkResponse(offload, presigned_url, raw_size)
    /\ result' = Returned(response')
    /\ pc' = "exit"
    /\ UNCHANGED << event, context, event_data, raw_size, offload, truncated_event_data,
                    truncated_data_size, file_object_path, presigned_url, final_event_size,
                    bucket, pending, sink, calls, failed >>

\* response = {...}; return json.dumps(response)
Respond ==
    /\ pc = "respond"
    /\ response' = OkResponse(offload, presigned_url, final_event_size)
    /\ result' = Returned(response')
    /\ pc' = "exit"
    /\ UNCHANGED << event, context, event_data, raw_size, offload, truncated_event_data,
                    truncated_data_size, file_object_path, presigned_url, final_event_size,
                    bucket, pending, sink, calls, failed >>

\* @metrics.log_metrics: when the handler returns or raises, the metrics
\* recorded during the invocation are flushed as one blob and the object is cleared
Exit ==
    /\ pc = "exit"
    /\ IF pending.metrics # <<>>
       THEN /\ sink' = Append(sink, pending)
            /\ pending' = NoMetrics
       ELSE UNCHANGED << sink, pending >>
    /\ pc' = "done"
    /\ UNCHANGED << event, context, event_data, raw_size, offload, truncated_event_data,
                    truncated_data_size, file_object_path, presigned_url, final_event_size,
                    response, result, bucket, calls, failed >>

Next ==
    \/ \E req \in Requests, rid \in RequestIds, cold \in BOOLEAN : Invoke(req, rid, cold)
    \/ Decode
    \/ EstimateRaw
    \/ ExtractHeavy
    \/ \E uuid \in Uuids, date \in Dates : GenerateKey(uuid, date)
    \/ \E outcome \in {"ok", "ClientError", "S3UploadFailedError"} : Upload(outcome)
    \/ \E outcome \in {"ok", "ClientError"}, url \in Urls : Presign(outcome, url)
    \/ Annotate
    \/ FinalSize
    \/ \E failAt \in 0..4 : EmitMetrics(failAt)
    \/ Respond
    \/ Exit

Spec == Init /\ [][Next]_vars

(***************************************************************************)
(* Vocabulary of the properties.                                           *)
(***************************************************************************)
\* the event as the decoder hands it to the pipeline, before any mutation
RawEvent == extract_data(event)
RawDetail == Get(RawEvent, "detail", PyNone)
\* the current detail block and the truncation record stamped into its metadata
Detail == Get(event_data, "detail", PyNone)
Stamp == Get(Get(Detail, "metadata", PyNone), "event_trucation", Absent)
\* the annotator has run
Annotated == pc \in {"final_size", "metrics", "respond"} \/ (pc \in {"exit", "done"} /\ calls.annotator = 1)
\* what the caller receives: the returned text parsed back, or nothing
Answer == IF result.kind = "return" THEN JsonLoads(result.text).v ELSE PyNone
Answered200 == pc = "done" /\ Get(Answer, "statusCode", PyNone) = Num(200)
AnswerEvent == Get(Answer, "event", PyNone)
NonEmptyHandle(v) == v.k = "str" /\ v.n > 0

\* byte length of json.dumps(v), counted directly from the JSON grammar
RECURSIVE JsonSize(_), JsonSizeOfAll(_, _)
JsonSize(v) ==
    CASE v.k = "str"  -> Len(v.s) * v.n + 2
      [] v.k = "num"  -> Digits(v.n)
      [] v.k = "bool" -> IF v.n = 1 THEN 4 ELSE 5
      [] v.k = "none" -> 4
      [] v.k \in {"list", "dict"} ->
             2 + JsonSizeOfAll(v.items, Len(v.items))
               + (IF Len(v.items) > 1 THEN 2 * (Len(v.items) - 1) ELSE 0)
      [] v.k = "pair" -> Len(v.s) + 4 + JsonSize(v.items[1])
JsonSizeOfAll(xs, n) == IF n = 0 THEN 0 ELSE JsonSizeOfAll(xs, n - 1) + JsonSize(xs[n])

\* sum of the byte lengths of the non-empty entries of a resources list
RECURSIVE NonEmptyBytes(_, _)
NonEmptyBytes(xs, n) ==
    IF n = 0 THEN 0
    ELSE NonEmptyBytes(xs, n - 1) + (IF xs[n].n > 0 THEN Len(xs[n].s) * xs[n].n ELSE 0)

\* the size the bus accounting rules give an event
BusSize(e) ==
    LET source == Get(e, "source", PyNone)
        dtype == Get(e, "detail-type", PyNone)
        resources == Get(e, "resources", List(<<>>)).items
    IN (IF HasKey(e, "time") THEN 14 ELSE 0)
           + Len(source.s) * source.n
           + Len(dtype.s) * dtype.n
           + JsonSize(Get(e, "detail", PyNone))
           + (IF HasKey(e, "resources") THEN NonEmptyBytes(resources, Len(resources)) ELSE 0)

RawFits == pc # "idle" /\ LET raw == RawEvent IN raw.k = "dict" /\ BusSize(raw) <= 255950
RawOver == pc # "idle" /\ LET raw == RawEvent IN raw.k = "dict" /\ BusSize(raw) > 255950

C2_OffloadWithHandle ==
    (pc = "done" /\ RawOver /\ result.kind = "return") =>
        /\ calls.upload = 1
        /\ ~HasKey(Detail, "data")
        /\ Get(Stamp, "event_truncated", PyNone) = Bool(TRUE)
        /\ NonEmptyHandle(Get(Stamp, "event_body_url", PyNone))
        /\ NonEmptyHandle(Get(AnswerEvent, "presigned_url", PyNone))

(***************************************************************************)
(* C3: when the body is not valid JSON the handler returns                 *)
(* {statusCode: 400, message: "Invalid JSON in body"} and nothing else     *)
(* runs: no size estimate, no storage call, no annotation, no metrics.     *)
(***************************************************************************)
InvalidBody == pc # "idle" /\ event.hasBody /\ ~JsonLoads(event.body).ok

C3_InvalidJson ==
    InvalidBody =>
        /\ calls = [estimator |-> 0, upload |-> 0, presign |-> 0, annotator |-> 0, emitter |-> 0]
        /\ bucket = {} /\ pending = NoMetrics
        /\ pc \in {"extract", "exit", "done"}
        /\ pc \in {"exit", "done"} =>
               /\ result.kind = "return"
               /\ Answer = Dict(<<Pair("statusCode", Num(400)),
                                  Pair("message", Str("Invalid JSON in body", 1))>>)
        /\ \A i \in 1..Len(sink) : \A j \in 1..Len(sink[i].metrics) :
               sink[i].metrics[j].name \notin {"Size", "Count"}

C3_Witness == InvalidBody /\ pc = "done" /\ Get(Answer, "statusCode", PyNone) = Num(400)

(***************************************************************************)
(* C4: a request whose upload or presign failed is never answered with a   *)
(* success result (statusCode 200).                                        *)
(***************************************************************************)
C4_StorageFailureSurfaced ==
    (pc = "done" /\ failed.storage) =>
        ~(result.kind = "return" /\ Get(Answer, "statusCode", PyNone) = Num(200))

(***************************************************************************)
(* C5: the size estimator returns (14 if time is present) + bytes of       *)
(* source + bytes of detail-type + bytes of detail as JSON + bytes of the  *)
(* non-empty resources; with time absent and resources empty that is       *)
(* len(source) + len(detail-type) + len(JSON(detail)).  The estimate of    *)
(* the raw event stands until the annotator runs, the estimate of the      *)
(* annotated event from then on.                                           *)
(***************************************************************************)
RawSized == pc \in {"extract_heavy", "generate_key", "upload", "presign", "annotate"}
FinalSized == pc \in {"metrics", "respond"} \/ (pc \in {"exit", "done"} /\ calls.estimator = 2)

C5_EstimatorFormula ==
    /\ RawSized =>
           /\ raw_size = BusSize(event_data)
           /\ (~HasKey(event_data, "time") /\ Get(event_data, "resources", List(<<>>)).items = <<>>) =>
                  raw_size = Len(Get(event_data, "source", PyNone).s) * Get(event_data, "source", PyNone).n
                             + Len(Get(event_data, "detail-type", PyNone).s)
                             + JsonSize(Detail)
    /\ FinalSized => final_event_size = BusSize(event_data)

\* an estimate of an event with a time field and a non-empty resource
C5_Witness ==
    /\ RawSized /\ HasKey(event_data, "time") /\ HasKey(event_data, "resources")
    /\ \E i \in 1..Len(Get(event_data, "resources", PyNone).items) :
           Get(event_data, "resources", PyNone).items[i].n > 0
    /\ raw_size = BusSize(event_data)

(***************************************************************************)
(* C6: every request answered with statusCode 200 reports a final event    *)
(* size of at most 256,000 bytes, the bus limit (stated for the requests   *)
(* whose storage calls all succeeded).                                     *)
(***************************************************************************)
C6_FinalEventFitsBus ==
    (Answered200 /\ ~failed.storage) =>
        /\ final_event_size <= 256000
        /\ Get(AnswerEvent, "event_size", PyNone).n <= 256000

(***************************************************************************)
(* C7: on the offload path the event_data_size of the truncation record is *)
(* the byte size of detail.data alone, serialized (as JSON or as str());   *)
(* stated for the events that carry detail.data and whose storage calls    *)
(* succeeded.                                                              *)
(***************************************************************************)
C7_OriginalDataSize ==
    (offload /\ Annotated /\ HasKey(RawDetail, "data") /\ ~failed.storage) =>
        Get(Stamp, "event_data_size", PyNone).n
            \in { JsonSize(Get(RawDetail, "data", PyNone)),
                  ByteLen(PyStr(Get(RawDetail, "data", PyNone))) }

(***************************************************************************)
(* C8: the object stored by a successful upload deserializes (json.loads)  *)
(* to the value removed from detail.data (stated for the events that carry *)
(* detail.data).                                                           *)
(***************************************************************************)
C8_StoredRoundTrip ==
    \A obj \in bucket :
        HasKey(RawDetail, "data") =>
        JsonLoads(obj.body) = [ok |-> TRUE, v |-> Get(RawDetail, "data", PyNone)]

(***************************************************************************)
(* C9: a request answered with statusCode 200 has published exactly one    *)
(* Size sample and exactly one Count sample of value 1; the Size value is  *)
(* the event_size of the response, the EventType dimension is the event's  *)
(* detail-type and the blob carries the invocation's request id.           *)
(***************************************************************************)
SamplesNamed(name) ==
    {<<i, j>> \in (1..Len(sink)) \X (1..4) :
        j <= Len(sink[i].metrics) /\ sink[i].metrics[j].name = name}

C9_MetricsOncePer200 ==
    Answered200 =>
        /\ Cardinality(SamplesNamed("Size")) = 1
        /\ Cardinality(SamplesNamed("Count")) = 1
        /\ pending = NoMetrics
        /\ \A ij \in SamplesNamed("Size") :
               /\ Num(sink[ij[1]].metrics[ij[2]].value) = Get(AnswerEvent, "event_size", PyNone)
               /\ sink[ij[1]].metrics[ij[2]].value = BusSize(event_data)
               /\ sink[ij[1]].dimensions
                      = <<[name |-> "EventType", value |-> Get(RawEvent, "detail-type", PyNone)]>>
               /\ sink[ij[1]].metadata
                      = <<[key |-> "PutEventId", value |-> context.aws_request_id]>>
        /\ \A ij \in SamplesNamed("Count") :
               /\ sink[ij[1]].metrics[ij[2]].value = 1
               /\ \E k \in SamplesNamed("Size") : k[1] = ij[1]

\* a truncated request answered 200 on a cold start, with its samples published
C9_Witness ==
    /\ Answered200 /\ offload /\ context.cold
    /\ Cardinality(SamplesNamed("Size")) = 1
    /\ raw_size # final_event_size

(***************************************************************************)
(* C10: a request whose metrics emission failed is still answered with the *)
(* 200 result.                                                             *)
(***************************************************************************)
C10_MetricsFailureNotFatal ==
    (pc = "done" /\ failed.metrics) =>
        /\ result.kind = "return"
        /\ Get(Answer, "statusCode", PyNone) = Num(200)
        /\ Get(AnswerEvent, "event_size", PyNone) = Num(final_event_size)

(***************************************************************************)
(* C11: the order of the pipeline steps within one request.  The overflow  *)
(* comparison is made once, on the size of the raw, unmutated event; the   *)
(* upload and presign (if any) have completed or failed before the         *)
(* annotator runs; the annotator runs exactly once, after the offload      *)
(* decision and execution; the final size is measured after the            *)
(* annotation, on the annotated event; the Size sample and the response    *)
(* carry that final size.                                                  *)
(***************************************************************************)
SizeSamples ==
    {pending.metrics[j].value : j \in {i \in 1..Len(pending.metrics) : pending.metrics[i].name = "Size"}}
        \cup {sink[ij[1]].metrics[ij[2]].value : ij \in SamplesNamed("Size")}

C11_PipelineOrder ==
    /\ calls.estimator <= 2 /\ calls.annotator <= 1 /\ calls.upload <= 1 /\ calls.presign <= 1
    /\ RawSized =>
           /\ calls.estimator = 1 /\ calls.annotator = 0
           /\ event_data = RawEvent
           /\ offload = (BusSize(event_data) > 255950)
           /\ pc = "annotate" =>
                  IF offload
                  THEN calls.upload = 1 /\ (calls.presign = 1 \/ failed.storage)
                  ELSE calls.upload = 0 /\ calls.presign = 0
    /\ Annotated =>
           /\ calls.annotator = 1
           /\ event_data # RawEvent
           /\ offload = (LET raw == RawEvent IN BusSize(raw) > 255950)
           /\ calls.upload = (IF offload THEN 1 ELSE 0)
           /\ calls.estimator = (IF pc = "final_size" THEN 1 ELSE 2)
    /\ FinalSized =>
           /\ calls.annotator = 1
           /\ final_event_size = BusSize(event_data)
    /\ SizeSamples \subseteq {final_event_size}
    /\ SizeSamples # {} => FinalSized
    /\ Answered200 =>
           /\ FinalSized
           /\ Get(AnswerEvent, "event_size", PyNone) = Num(final_event_size)

\* an offloaded request answered after both storage calls, whose annotated
\* event measures differently from the raw one
C11_Witness ==
    /\ Answered200 /\ offload /\ calls.upload = 1 /\ calls.presign = 1
    /\ calls.estimator = 2 /\ calls.annotator = 1
    /\ SizeSamples = {final_event_size}
    /\ final_event_size # raw_size

(***************************************************************************)
(* C12: the decoder reports a decode failure (False, answered with the 400 *)
(* result) only for a request with a body field whose content is not valid *)
(* JSON.  For a request without a body field it returns None: the handler  *)
(* answers no 400 and goes on to the size estimator with no event.         *)
(***************************************************************************)
Decoded == pc \notin {"idle", "extract"}

C12_DecodeFailureOnlyOnInvalidJson ==
    Decoded =>
        /\ event_data = Bool(FALSE) => (event.hasBody /\ ~JsonLoads(event.body).ok)
        /\ Get(Answer, "statusCode", PyNone) = Num(400)
               => (event.hasBody /\ ~JsonLoads(event.body).ok)
        /\ ~event.hasBody =>
               /\ event_data = PyNone
               /\ Get(Answer, "statusCode", PyNone) # Num(400)
               /\ pc = "size_raw" \/ calls.estimator = 1

====
